---- MODULE Spec2Model ----
(***************************************************************************)
(* Model of the LLM code deployment agent: the request gateway             *)
(* (main.py, receive_task), the build orchestrator (tasks.py,              *)
(* handle_build_task), the revise placeholder (handle_revise_task) and     *)
(* the notifier (notify_evaluator).  The generative-model service, the     *)
(* source-hosting service and the callback endpoint are the environment:   *)
(* every remote call is one step whose result is chosen among the results  *)
(* the service can give in the current remote state.                       *)
(***************************************************************************)
EXTENDS Integers, Sequences, FiniteSets, TLC

(***************************************************************************)
(* Bounds of the model.                                                    *)
(***************************************************************************)
\* Number of requests the gateway receives in one behaviour.
MaxTasks == 2
\* Round numbers sent by callers range over 0 .. MaxRound.
MaxRound == 3
\* Longest attachment list of a request in the single-task specification.
MaxAtt == 2

(***************************************************************************)
(* Program constants.                                                      *)
(***************************************************************************)
\* main.py:9, the server-held secret (its value is the environment's).
MY_SECRET == "S"
\* tasks.py:115, time.sleep(2) after repo.delete().
DeleteWait == 2
\* tasks.py:82, the only status code that counts as success.
StatusOK == 200
\* Variant of retries: the list without its last delay.
retries_ThreeDelays == <<1, 2, 4>>

\* tasks.py:77, retries = [1, 2, 4, 8].
retries == <<1, 2, 4, 8>>

Slots == 1 .. MaxTasks

(***************************************************************************)
(* Strings are sequences of one-character strings, bytes are 0 .. 255.     *)
(***************************************************************************)
\* str.split(",", 1) of tasks.py:99: the parts around the first comma, or
\* the whole string as the only part when it holds no comma.
RECURSIVE FirstComma(_, _)
FirstComma(url, k) ==
    IF k > Len(url) THEN 0
    ELSE IF url[k] = "," THEN k
    ELSE FirstComma(url, k + 1)

\* Variant of the split: str.partition(","), which gives an empty second
\* part when the string holds no comma.
SplitAtFirstComma_Partition(url) ==
    LET c == FirstComma(url, 1)
    IN  IF c = 0 THEN <<url, <<>>>>
        ELSE <<SubSeq(url, 1, c - 1), SubSeq(url, c + 1, Len(url))>>

SplitAtFirstComma(url) ==
    LET c == FirstComma(url, 1)
    IN  IF c = 0 THEN <<url>>
        ELSE <<SubSeq(url, 1, c - 1), SubSeq(url, c + 1, Len(url))>>

\* The value of a base64 digit; 64 for a character outside the alphabet
\* (the digits the modelled payloads use).
B64Value(ch) ==
    CASE ch = "Q" -> 16
      [] ch = "Y" -> 24
      [] ch = "g" -> 32
      [] ch = "w" -> 48
      [] ch = "/" -> 63
      [] OTHER    -> 64

\* base64.b64decode(encoded) of tasks.py:100, not validating: characters
\* outside the alphabet are skipped, a complete pad sequence ends the
\* parse, and data that stops inside a quantum is an error.  The scan
\* carries the position in the quantum, the bits left over, the pads seen
\* and the bytes produced.
RECURSIVE B64Scan(_, _, _, _, _, _)
B64Scan(s, k, quad, left, pads, out) ==
    IF k > Len(s)
    THEN IF quad # 0 THEN [ok |-> FALSE, bytes |-> <<>>]
         ELSE [ok |-> TRUE, bytes |-> out]
    ELSE IF s[k] = "="
    THEN IF quad >= 2 /\ quad + pads + 1 >= 4
         THEN [ok |-> TRUE, bytes |-> out]
         ELSE B64Scan(s, k + 1, quad, left,
                      IF quad >= 2 THEN pads + 1 ELSE pads, out)
    ELSE LET v == B64Value(s[k])
         IN  IF v >= 64 THEN B64Scan(s, k + 1, quad, left, pads, out)
             ELSE CASE quad = 0 -> B64Scan(s, k + 1, 1, v, 0, out)
                    [] quad = 1 -> B64Scan(s, k + 1, 2, v % 16, 0,
                                     Append(out, left * 4 + (v \div 16)))
                    [] quad = 2 -> B64Scan(s, k + 1, 3, v % 4, 0,
                                     Append(out, left * 16 + (v \div 4)))
                    [] OTHER    -> B64Scan(s, k + 1, 0, 0, 0,
                                     Append(out, left * 64 + v))

b64decode(encoded) == B64Scan(encoded, 1, 0, 0, 0, <<>>)

\* bytes.decode('utf-8') of tasks.py:100 on the bytes of one quantum: one
\* byte below 128 is one character; a lead byte needs its continuation
\* bytes.  The text is kept as its bytes.
IsCont(b) == b >= 128 /\ b <= 191

RECURSIVE Utf8Valid(_, _)
Utf8Valid(bytes, k) ==
    IF k > Len(bytes) THEN TRUE
    ELSE LET b == bytes[k]
         IN  IF b < 128 THEN Utf8Valid(bytes, k + 1)
             ELSE IF b >= 194 /\ b <= 223
             THEN /\ k + 1 <= Len(bytes)
                  /\ IsCont(bytes[k + 1])
                  /\ Utf8Valid(bytes, k + 2)
             ELSE IF b >= 224 /\ b <= 239
             THEN /\ k + 2 <= Len(bytes)
                  /\ IsCont(bytes[k + 1])
                  /\ IsCont(bytes[k + 2])
                  /\ (b = 224 => bytes[k + 1] >= 160)
                  /\ (b = 237 => bytes[k + 1] <= 159)
                  /\ Utf8Valid(bytes, k + 3)
             ELSE FALSE

\* One iteration of the loop of tasks.py:98-101 on attachment att: the
\* error it raises, or the decoded content.
DecodeAttachment(att) ==
    LET parts == SplitAtFirstComma(att.url)
    IN  IF Len(parts) # 2
        THEN [ok |-> FALSE, error |-> "ValueError", content |-> <<>>]
        ELSE LET raw == b64decode(parts[2])
             IN  IF ~raw.ok
                 THEN [ok |-> FALSE, error |-> "binascii.Error", content |-> <<>>]
                 ELSE IF ~Utf8Valid(raw.bytes, 1)
                 THEN [ok |-> FALSE, error |-> "UnicodeDecodeError", content |-> <<>>]
                 ELSE [ok |-> TRUE, error |-> "", content |-> raw.bytes]

(***************************************************************************)
(* Inputs.                                                                 *)
(***************************************************************************)
\* Data-URIs: "h" stands for the header text before the comma.
UrlA       == <<"h", ",", "Y", "Q", "=", "=">>
UrlB       == <<"h", ",", "Y", "g", "=", "=">>
UrlNoComma == <<"h", "Y", "Q", "=", "=">>
UrlTwoComma == <<"h", ",", "Y", ",", "g", "=", "=">>
UrlBadPad  == <<"h", ",", "Y", "Q">>
UrlNotText == <<"h", ",", "/", "w", "=", "=">>

Attachment(n, u) == [name |-> n, url |-> u]

Attachments ==
    { Attachment("f", UrlA), Attachment("f", UrlB), Attachment("g", UrlTwoComma),
      Attachment("g", UrlNoComma), Attachment("f", UrlBadPad),
      Attachment("g", UrlNotText) }

RECURSIVE SeqsUpTo(_, _)
SeqsUpTo(S, n) ==
    IF n = 0 THEN { <<>> }
    ELSE LET shorter == SeqsUpTo(S, n - 1)
         IN  shorter \cup { Append(q, x) : q \in shorter, x \in S }

\* Attachment lists of the requests the gateway receives.
GatewayAttachments == { <<Attachment("f", UrlA)>> }

Secrets == { MY_SECRET, "wrong" }
TaskIds == { "a", "b" }
\* The task identifier of the requests the gateway receives.
GatewayTaskIds == { "a" }
Rounds  == 0 .. MaxRound

TaskRequest(sec, t, rnd, atts) ==
    [secret |-> sec, task |-> t, round |-> rnd, attachments |-> atts,
     email |-> "e", nonce |-> "n", evaluation_url |-> "u"]

\* The TaskRequests sent to POST /api-endpoint.
Requests ==
    { TaskRequest(sec, t, rnd, atts) :
        sec \in Secrets, t \in GatewayTaskIds, rnd \in Rounds,
        atts \in GatewayAttachments }

\* Values of the fields email, nonce and evaluation_url of a request.
PassThrough == { <<"e", "n", "u">>, <<"e2", "n2", "u2">> }

WithPassThrough(r, p) ==
    [r EXCEPT !.email = p[1], !.nonce = p[2], !.evaluation_url = p[3]]

\* The round-1 requests with every attachment list up to MaxAtt.
BuildRequests ==
    { WithPassThrough(TaskRequest(MY_SECRET, t, 1, atts), p) :
        t \in TaskIds, atts \in SeqsUpTo(Attachments, MaxAtt),
        p \in PassThrough }

NoRequest == TaskRequest("", "", 0, <<>>)

\* tasks.py:109, repo_name = f"llm-agent-task-{request_data.task}".
RepoName(t) == <<"llm-agent-task-", t>>
RepoNames == { RepoName(t) : t \in TaskIds }

\* The results of requests.post (tasks.py:81): a response with a status
\* code, a requests.RequestException (connection error, timeout), or an
\* exception of a class outside RequestException (the OSError that
\* requests raises when the CA bundle of the host cannot be read).
Response(code) == [kind |-> "response", code |-> code]
Raised(cls)    == [kind |-> cls, code |-> 0]
NoOutcome     == [kind |-> "none", code |-> 0]
PostOutcomes ==
    { Response(StatusOK), Response(503),
      Raised("RequestException"), Raised("OSError") }
\* The results of the POST in the specification of the whole service: the
\* callback endpoint answers, with 200 or with another status.
GatewayOutcomes == { Response(StatusOK), Response(503) }

(***************************************************************************)
(* State.                                                                  *)
(***************************************************************************)
VARIABLES
    nreq,        \* requests received so far
    req,         \* req[i]: the i-th TaskRequest
    resp,        \* resp[i]: the status of the HTTP response to it (0: none)
    sched,       \* sched[i]: its BackgroundTasks list (handler names)
    pc,          \* pc[i]: where the background task of request i stands
    attIdx,      \* attIdx[i]: the attachment the decode loop is at
    decoded,     \* decoded[i]: decoded_attachments, name -> content
    calls,       \* calls[i]: the calls the task made, with their results
    waits,       \* waits[i]: the durations slept at tasks.py:115
    failure,     \* failure[i]: the exception that ended the task ("": none)
    answers,     \* answers[i]: the statuses get_repo and delete were answered with
    repo,        \* repo[i]: the object bound to the local variable repo
    commit_info, \* commit_info[i]: the commit bound at tasks.py:123
    notifyUrl,   \* notifyUrl[i]: the url argument of notify_evaluator
    payload,     \* payload[i]: the payload argument of notify_evaluator
    posts,       \* posts[i]: POST attempts of notify_evaluator
    sleeps,      \* sleeps[i]: the delays slept at tasks.py:89
    last,        \* last[i]: the result of the latest POST attempt
    repos,       \* repos[n]: the remote repository n (exists, files)
    lastPub,     \* lastPub[n]: the task whose Publisher call on n was the last
    interleaved  \* interleaved[n]: a task's Publisher calls on n were cut by another's

gatewayVars  == <<nreq, req, resp, sched>>
publisherVars == <<answers, repo, commit_info>>
taskVars     == <<attIdx, decoded, calls, waits, failure, publisherVars>>
notifierVars == <<posts, sleeps, last, notifyUrl, payload>>
remoteVars   == <<repos, lastPub, interleaved>>
vars == <<nreq, req, resp, sched, pc, attIdx, decoded, calls, waits, failure,
          answers, repo, commit_info, notifyUrl, payload,
          posts, sleeps, last, repos, lastPub, interleaved>>

\* A commit: the path it created and the task that made it (0: a commit
\* that was there before the service started).  Two commits are never the
\* same commit, so the record stands for the commit's sha as well.
Commit(i, path) == [path |-> path, by |-> i]
NoCommit == Commit(0, "")

\* A remote repository and the commits it holds.
NoRepo == [exists |-> FALSE, files |-> {}]

\* The Repository object that the call named returned for the repository
\* n: get_repo returns the repository it found, create_repo the one it
\* made.
RepoObject(n, call) == [name |-> n, from |-> call]
NoObject == RepoObject(<<>>, "")

\* Nothing has been handed to notify_evaluator.
NoPayload == [k \in {} |-> ""]

\* The variables of the tasks before any step of theirs.
Unstarted ==
    /\ attIdx = [i \in Slots |-> 1]
    /\ decoded = [i \in Slots |-> <<>>]
    /\ waits = [i \in Slots |-> <<>>]
    /\ failure = [i \in Slots |-> ""]
    /\ answers = [i \in Slots |-> <<>>]
    /\ repo = [i \in Slots |-> NoObject]
    /\ commit_info = [i \in Slots |-> NoCommit]
    /\ notifyUrl = [i \in Slots |-> ""]
    /\ payload = [i \in Slots |-> NoPayload]
    /\ posts = [i \in Slots |-> 0]
    /\ sleeps = [i \in Slots |-> <<>>]
    /\ last = [i \in Slots |-> NoOutcome]
    /\ lastPub = [n \in RepoNames |-> 0]
    /\ interleaved = [n \in RepoNames |-> FALSE]

Idle ==
    /\ pc = [i \in Slots |-> "none"]
    /\ calls = [i \in Slots |-> <<>>]
    /\ Unstarted

\* The server has started and no request has arrived; the account holds
\* no repository of a task yet.
Init ==
    /\ nreq = 0
    /\ req = [i \in Slots |-> NoRequest]
    /\ resp = [i \in Slots |-> 0]
    /\ sched = [i \in Slots |-> <<>>]
    /\ Idle
    /\ repos = [n \in RepoNames |-> NoRepo]

\* A repository left by an earlier deployment.
OldRepo == [exists |-> TRUE, files |-> { Commit(0, "old") }]

\* The gateway has accepted request r as request 1, answered 200 and added
\* handle_build_task; the task has not started.
Accepted(r) ==
    /\ nreq = 1
    /\ req = [i \in Slots |-> IF i = 1 THEN r ELSE NoRequest]
    /\ resp = [i \in Slots |-> IF i = 1 THEN 200 ELSE 0]
    /\ sched = [i \in Slots |-> IF i = 1 THEN <<"handle_build_task">> ELSE <<>>]
    /\ calls = [i \in Slots |-> <<>>]
    /\ Unstarted
    /\ pc = [i \in Slots |-> IF i = 1 THEN "queued" ELSE "none"]

\* One accepted round-1 request, with any attachment list, and any remote
\* state of the account.
InitBuild ==
    /\ \E r \in BuildRequests : Accepted(r)
    /\ repos \in [RepoNames -> { NoRepo, OldRepo }]

\* Every request has been accepted as a round-1 task without attachments
\* and its content has been generated: the tasks are about to publish.
InitPublish ==
    /\ nreq = MaxTasks
    /\ req \in [Slots -> { TaskRequest(MY_SECRET, t, 1, <<>>) : t \in TaskIds }]
    /\ resp = [i \in Slots |-> 200]
    /\ sched = [i \in Slots |-> <<"handle_build_task">>]
    /\ pc = [i \in Slots |-> "get_repo"]
    /\ calls = [i \in Slots |->
          << [op |-> "generate_content:html", res |-> "ok"],
             [op |-> "generate_content:readme", res |-> "ok"] >>]
    /\ Unstarted
    /\ repos \in [RepoNames -> { NoRepo, OldRepo }]

(***************************************************************************)
(* Request gateway (main.py).                                              *)
(***************************************************************************)
\* Variant of receive_task: the background task is added before the
\* secret is compared.
receive_task_AddBeforeSecret(r) ==
    IF r.round = 1
    THEN [status |-> IF r.secret # MY_SECRET THEN 403 ELSE 200,
          tasks |-> <<"handle_build_task">>]
    ELSE IF r.round = 2
    THEN [status |-> IF r.secret # MY_SECRET THEN 403 ELSE 200,
          tasks |-> <<"handle_revise_task">>]
    ELSE [status |-> IF r.secret # MY_SECRET THEN 403 ELSE 400, tasks |-> <<>>]

\* Variant of receive_task: every round other than 1 is taken as round 2.
receive_task_ElseRevise(r) ==
    IF r.secret # MY_SECRET
    THEN [status |-> 403, tasks |-> <<>>]
    ELSE IF r.round = 1
    THEN [status |-> 200, tasks |-> <<"handle_build_task">>]
    ELSE [status |-> 200, tasks |-> <<"handle_revise_task">>]

\* receive_task, main.py:14-26: the status of the response and the
\* background tasks added, for request r.
receive_task(r) ==
    IF r.secret # MY_SECRET
    THEN [status |-> 403, tasks |-> <<>>]
    ELSE IF r.round = 1
    THEN [status |-> 200, tasks |-> <<"handle_build_task">>]
    ELSE IF r.round = 2
    THEN [status |-> 200, tasks |-> <<"handle_revise_task">>]
    ELSE [status |-> 400, tasks |-> <<>>]

\* Variant of ReceiveTask: the handler is awaited inside the request, the
\* response of an accepted request is not sent at receipt.
ReceiveTask_Awaits(r) ==
    /\ nreq < MaxTasks
    /\ LET i == nreq + 1
           out == receive_task(r)
       IN  /\ nreq' = i
           /\ req' = [req EXCEPT ![i] = r]
           /\ resp' = [resp EXCEPT ![i] = IF out.tasks = <<>> THEN out.status ELSE 0]
           /\ sched' = [sched EXCEPT ![i] = out.tasks]
           /\ pc' = [pc EXCEPT ![i] = IF out.tasks = <<>> THEN "none" ELSE "queued"]
    /\ UNCHANGED <<taskVars, notifierVars, remoteVars>>

\* POST /api-endpoint with body r: the response is sent, and the
\* background tasks added run after it in a worker thread.
ReceiveTask(r) ==
    /\ nreq < MaxTasks
    /\ LET i == nreq + 1
           out == receive_task(r)
       IN  /\ nreq' = i
           /\ req' = [req EXCEPT ![i] = r]
           /\ resp' = [resp EXCEPT ![i] = out.status]
           /\ sched' = [sched EXCEPT ![i] = out.tasks]
           /\ pc' = [pc EXCEPT ![i] = IF out.tasks = <<>> THEN "none" ELSE "queued"]
    /\ UNCHANGED <<taskVars, notifierVars, remoteVars>>

(***************************************************************************)
(* Round 2 placeholder (tasks.py:141-144).                                 *)
(***************************************************************************)
\* Variant of handle_revise_task: the placeholder runs the build steps.
HandleReviseTask_RunsBuild(i) ==
    /\ pc[i] = "queued"
    /\ Head(sched[i]) = "handle_revise_task"
    /\ pc' = [pc EXCEPT ![i] = "generate"]
    /\ UNCHANGED <<gatewayVars, taskVars, notifierVars, remoteVars>>

HandleReviseTask(i) ==
    /\ pc[i] = "queued"
    /\ Head(sched[i]) = "handle_revise_task"
    /\ pc' = [pc EXCEPT ![i] = "done"]
    /\ UNCHANGED <<gatewayVars, taskVars, notifierVars, remoteVars>>

(***************************************************************************)
(* Build orchestrator (tasks.py:93-139).                                   *)
(***************************************************************************)
Call(op, res) == [op |-> op, res |-> res]

\* Variant of Abort: the exception is caught around the step and the task
\* goes on to the notification.
Abort_Swallowed(i, op, exc) ==
    /\ pc' = [pc EXCEPT ![i] = "notify"]
    /\ failure' = [failure EXCEPT ![i] = exc]
    /\ calls' = [calls EXCEPT ![i] = Append(@, Call(op, "raised"))]

\* An exception leaves handle_build_task: the task ends where it stands.
Abort(i, op, exc) ==
    /\ pc' = [pc EXCEPT ![i] = "failed"]
    /\ failure' = [failure EXCEPT ![i] = exc]
    /\ calls' = [calls EXCEPT ![i] = Append(@, Call(op, "raised"))]

\* tasks.py:95-97: the task starts with an empty decoded_attachments.
StartBuild(i) ==
    /\ pc[i] = "queued"
    /\ Head(sched[i]) = "handle_build_task"
    /\ pc' = [pc EXCEPT ![i] =
                IF req[i].attachments = <<>> THEN "generate" ELSE "decode"]
    /\ UNCHANGED <<gatewayVars, taskVars, notifierVars, remoteVars>>

\* tasks.py:101, decoded_attachments[att.name] = decoded_content.
\* Variant: a name already in the dictionary keeps its content.
StoreDecoded_KeepFirst(dict, name, content) ==
    [n \in (DOMAIN dict) \cup {name} |->
        IF n \in DOMAIN dict THEN dict[n] ELSE content]

StoreDecoded(dict, name, content) ==
    [n \in (DOMAIN dict) \cup {name} |->
        IF n = name THEN content ELSE dict[n]]

\* tasks.py:98-101: one iteration of the decode loop.
DecodeStep(i) ==
    /\ pc[i] = "decode"
    /\ LET att == req[i].attachments[attIdx[i]]
           d   == DecodeAttachment(att)
       IN  IF ~d.ok
           THEN /\ pc' = [pc EXCEPT ![i] = "failed"]
                /\ failure' = [failure EXCEPT ![i] = d.error]
                /\ UNCHANGED <<attIdx, decoded>>
           ELSE /\ decoded' = [decoded EXCEPT ![i] =
                      StoreDecoded(@, att.name, d.content)]
                /\ attIdx' = [attIdx EXCEPT ![i] = @ + 1]
                /\ pc' = [pc EXCEPT ![i] =
                      IF attIdx[i] = Len(req[i].attachments)
                      THEN "generate" ELSE "decode"]
                /\ UNCHANGED failure
    /\ UNCHANGED <<gatewayVars, calls, waits, publisherVars, notifierVars, remoteVars>>

\* tasks.py:103 and 54: generate_code_from_llm is entered and asks the
\* model for the markup; the call returns a text or raises.
GenerateHtml(i, ok) ==
    /\ pc[i] = "generate"
    /\ IF ok
       THEN /\ pc' = [pc EXCEPT ![i] = "generate_readme"]
            /\ calls' = [calls EXCEPT ![i] =
                  Append(@, Call("generate_content:html", "ok"))]
            /\ UNCHANGED failure
       ELSE Abort(i, "generate_content:html", "LLMError")
    /\ UNCHANGED <<gatewayVars, attIdx, decoded, waits, publisherVars, notifierVars, remoteVars>>

\* tasks.py:69-72: the second model call, then the generator returns.
GenerateReadme(i, ok) ==
    /\ pc[i] = "generate_readme"
    /\ IF ok
       THEN /\ pc' = [pc EXCEPT ![i] = "get_repo"]
            /\ calls' = [calls EXCEPT ![i] =
                  Append(@, Call("generate_content:readme", "ok"))]
            /\ UNCHANGED failure
       ELSE Abort(i, "generate_content:readme", "LLMError")
    /\ UNCHANGED <<gatewayVars, attIdx, decoded, waits, publisherVars, notifierVars, remoteVars>>

(***************************************************************************)
(* Publisher steps of the orchestrator (tasks.py:109-123) against the      *)
(* source-hosting service.                                                 *)
(***************************************************************************)
\* Variant of repo_name: one repository name for every task.
repo_name_Shared(i) == RepoName("a")

repo_name(i) == RepoName(req[i].task)

\* A status any call to the service may fail with whatever the remote state.
ServiceErrors == { 500 }

\* The answers of the service in the current remote state.
GetRepoStatus(n)    == { IF repos[n].exists THEN 200 ELSE 404 } \cup ServiceErrors
DeleteStatus(n)     == { IF repos[n].exists THEN 204 ELSE 404 } \cup ServiceErrors
CreateRepoStatus(n) == { IF repos[n].exists THEN 422 ELSE 201 } \cup ServiceErrors
CreateFileStatus(n, path) ==
    { IF ~repos[n].exists THEN 404
      ELSE IF \E c \in repos[n].files : c.path = path THEN 422
      ELSE 201 } \cup ServiceErrors

Succeeded(status) == status \in { 200, 201, 204 }
GithubStatuses == { 200, 201, 204, 404, 422 } \cup ServiceErrors

\* Task i issues a call on repository n.  Its calls on n are interleaved
\* with another task's when this is not its first call and the last call
\* on n was the other task's.
Publish(i, n, first) ==
    /\ lastPub' = [lastPub EXCEPT ![n] = i]
    /\ interleaved' = [interleaved EXCEPT ![n] =
            @ \/ (~first /\ lastPub[n] \notin { 0, i })]

\* Variant of the handler: no status is raised again.
Reraised_Never(status) == FALSE

\* Variant of the handler: every status is raised again.
Reraised_Always(status) == TRUE

\* tasks.py:116-117, except GithubException as e: if e.status != 404: raise.
\* TRUE when the exception is raised again.
Reraised(status) == status # 404

\* The handler of the try block of tasks.py:111-117 for a call that raised
\* with the given status: the task goes on to create_repo or is aborted.
OnGithubException(i, op, status) ==
    IF Reraised(status)
    THEN Abort(i, op, "GithubException")
    ELSE /\ pc' = [pc EXCEPT ![i] = "create_repo"]
         /\ calls' = [calls EXCEPT ![i] = Append(@, Call(op, "404"))]
         /\ UNCHANGED failure

\* tasks.py:112, github_user.get_repo(repo_name).
GetRepo(i, status) ==
    /\ pc[i] = "get_repo"
    /\ status \in GetRepoStatus(repo_name(i))
    /\ Publish(i, repo_name(i), TRUE)
    /\ answers' = [answers EXCEPT ![i] = Append(@, status)]
    /\ IF Succeeded(status)
       THEN /\ pc' = [pc EXCEPT ![i] = "delete"]
            /\ calls' = [calls EXCEPT ![i] = Append(@, Call("get_repo", "ok"))]
            /\ repo' = [repo EXCEPT ![i] = RepoObject(repo_name(i), "get_repo")]
            /\ UNCHANGED failure
       ELSE /\ OnGithubException(i, "get_repo", status)
            /\ UNCHANGED repo
    /\ UNCHANGED <<gatewayVars, attIdx, decoded, waits, commit_info, notifierVars, repos>>

\* tasks.py:114, repo.delete().
DeleteRepo(i, status) ==
    /\ pc[i] = "delete"
    /\ status \in DeleteStatus(repo_name(i))
    /\ Publish(i, repo_name(i), FALSE)
    /\ answers' = [answers EXCEPT ![i] = Append(@, status)]
    /\ IF Succeeded(status)
       THEN /\ repos' = [repos EXCEPT ![repo_name(i)] = NoRepo]
            /\ pc' = [pc EXCEPT ![i] = "wait"]
            /\ calls' = [calls EXCEPT ![i] = Append(@, Call("delete", "ok"))]
            /\ UNCHANGED failure
       ELSE /\ OnGithubException(i, "delete", status)
            /\ UNCHANGED repos
    /\ UNCHANGED <<gatewayVars, attIdx, decoded, waits, repo, commit_info, notifierVars>>

\* Variant of the wait: create_repo follows the delete at once.
WaitAfterDelete_NoSleep(i) ==
    /\ pc[i] = "wait"
    /\ pc' = [pc EXCEPT ![i] = "create_repo"]
    /\ UNCHANGED <<gatewayVars, taskVars, notifierVars, remoteVars>>

\* tasks.py:115, time.sleep(2).
WaitAfterDelete(i) ==
    /\ pc[i] = "wait"
    /\ waits' = [waits EXCEPT ![i] = Append(@, DeleteWait)]
    /\ calls' = [calls EXCEPT ![i] = Append(@, Call("sleep", "ok"))]
    /\ pc' = [pc EXCEPT ![i] = "create_repo"]
    /\ UNCHANGED <<gatewayVars, attIdx, decoded, failure, publisherVars, notifierVars, remoteVars>>

\* tasks.py:119, repo = ...: the object the local variable repo holds
\* after create_repo returned the new repository n to task i.
\* Variant: the result of create_repo is not assigned.
BoundByCreateRepo_Discarded(i, n) == repo[i]

BoundByCreateRepo(i, n) == RepoObject(n, "create_repo")

\* tasks.py:119, github_user.create_repo(repo_name, ...), outside the try.
CreateRepo(i, status) ==
    /\ pc[i] = "create_repo"
    /\ status \in CreateRepoStatus(repo_name(i))
    /\ Publish(i, repo_name(i), FALSE)
    /\ IF Succeeded(status)
       THEN /\ repos' = [repos EXCEPT ![repo_name(i)] =
                            [exists |-> TRUE, files |-> {}]]
            /\ repo' = [repo EXCEPT ![i] = BoundByCreateRepo(i, repo_name(i))]
            /\ pc' = [pc EXCEPT ![i] = "LICENSE"]
            /\ calls' = [calls EXCEPT ![i] = Append(@, Call("create_repo", "ok"))]
            /\ UNCHANGED failure
       ELSE /\ Abort(i, "create_repo", "GithubException")
            /\ UNCHANGED <<repos, repo>>
    /\ UNCHANGED <<gatewayVars, attIdx, decoded, waits, answers, commit_info, notifierVars>>

\* tasks.py:121-123: the statement that follows the commit of path (the
\* task's position is the path it commits next).
CommitPaths == { "LICENSE", "README.md", "index.html" }

\* Variant of the commits: the README commit is left out.
AfterCommit_SkipReadme(path) ==
    CASE path = "LICENSE"   -> "index.html"
      [] OTHER              -> "notify"

\* Variant of the commits: the notification follows the README commit.
AfterCommit_NotifyEarly(path) ==
    CASE path = "LICENSE"   -> "README.md"
      [] OTHER              -> "notify"

AfterCommit(path) ==
    CASE path = "LICENSE"   -> "README.md"
      [] path = "README.md" -> "index.html"
      [] OTHER              -> "notify"

\* tasks.py:121-123: TRUE for the commit whose result is assigned to
\* commit_info.
\* Variant: the result of the README commit is the one assigned.
BindsCommitInfo_Readme(path) == path = "README.md"

BindsCommitInfo(path) == path = "index.html"

\* tasks.py:121-123, repo.create_file(path, ...).
CreateFile(i, status) ==
    /\ pc[i] \in CommitPaths
    /\ LET path == pc[i]
           n    == repo_name(i)
       IN  /\ status \in CreateFileStatus(n, path)
           /\ Publish(i, n, FALSE)
           /\ IF Succeeded(status)
              THEN /\ repos' = [repos EXCEPT ![n].files = @ \cup { Commit(i, path) }]
                   /\ commit_info' = [commit_info EXCEPT ![i] =
                         IF BindsCommitInfo(path) THEN Commit(i, path) ELSE @]
                   /\ calls' = [calls EXCEPT ![i] = Append(@, Call(path, "ok"))]
                   /\ pc' = [pc EXCEPT ![i] = AfterCommit(path)]
                   /\ UNCHANGED failure
              ELSE /\ Abort(i, path, "GithubException")
                   /\ UNCHANGED <<repos, commit_info>>
    /\ UNCHANGED <<gatewayVars, attIdx, decoded, waits, answers, repo, notifierVars>>

(***************************************************************************)
(* Notifier (tasks.py:75-90), called at tasks.py:138.                      *)
(***************************************************************************)
\* github_user.login (tasks.py:16), the account of the token.
Login == "user"

\* repo.html_url of a Repository object.
HtmlUrl(r) == <<"https://github.com/", Login, "/", r.name>>

\* tasks.py:126, f"https://{github_user.login}.github.io/{repo.name}/".
PagesUrl(r) == <<"https://", Login, ".github.io/", r.name, "/">>

\* tasks.py:129-137, the payload dictionary.
\* Variant: the nonce entry is filled with the task identifier.
Payload_NonceIsTask(i) ==
    [email      |-> req[i].email,
     task       |-> req[i].task,
     round      |-> req[i].round,
     nonce      |-> req[i].task,
     repo_url   |-> HtmlUrl(repo[i]),
     commit_sha |-> commit_info[i],
     pages_url  |-> PagesUrl(repo[i])]

Payload(i) ==
    [email      |-> req[i].email,
     task       |-> req[i].task,
     round      |-> req[i].round,
     nonce      |-> req[i].nonce,
     repo_url   |-> HtmlUrl(repo[i]),
     commit_sha |-> commit_info[i],
     pages_url  |-> PagesUrl(repo[i])]

\* tasks.py:129-138: the payload is built and notify_evaluator is entered
\* with request_data.evaluation_url and the payload.
CallNotify(i) ==
    /\ pc[i] = "notify"
    /\ notifyUrl' = [notifyUrl EXCEPT ![i] = req[i].evaluation_url]
    /\ payload' = [payload EXCEPT ![i] = Payload(i)]
    /\ calls' = [calls EXCEPT ![i] = Append(@, Call("notify_evaluator", "ok"))]
    /\ pc' = [pc EXCEPT ![i] = "post"]
    /\ UNCHANGED <<gatewayVars, attIdx, decoded, waits, failure, publisherVars,
                   posts, sleeps, last, remoteVars>>

\* tasks.py:87, except requests.RequestException: TRUE for the results of
\* the POST that the try block absorbs.
\* Variant: no except clause, only responses are handled.
Absorbed_ResponsesOnly(o) == o.kind = "response"

Absorbed(o) == o.kind \in { "response", "RequestException" }

\* tasks.py:82-86: where the loop goes after a result the try block
\* absorbed: a 200 returns from the function, anything else falls through
\* to the sleep.
\* Variant: the return after a 200 is missing.
AfterPost_NoReturn(o) == "sleep"

AfterPost(o) ==
    IF o.kind = "response" /\ o.code = StatusOK THEN "done" ELSE "sleep"

\* tasks.py:79-88: one POST attempt with result o.  A 200 returns from the
\* function, and handle_build_task ends after it (tasks.py:139); another
\* response or a RequestException goes on to the sleep; any other
\* exception leaves notify_evaluator and then handle_build_task.
NotifyPost(i, o) ==
    /\ pc[i] = "post"
    /\ posts' = [posts EXCEPT ![i] = @ + 1]
    /\ last' = [last EXCEPT ![i] = o]
    /\ IF ~Absorbed(o)
       THEN /\ pc' = [pc EXCEPT ![i] = "failed"]
            /\ failure' = [failure EXCEPT ![i] = o.kind]
       ELSE /\ pc' = [pc EXCEPT ![i] = AfterPost(o)]
            /\ UNCHANGED failure
    /\ UNCHANGED <<gatewayVars, attIdx, decoded, calls, waits, publisherVars,
                   sleeps, notifyUrl, payload, remoteVars>>

\* Variant of the sleep: no sleep after the last attempt.
NotifySleep_NoFinalSleep(i) ==
    /\ pc[i] = "sleep"
    /\ IF posts[i] < Len(retries)
       THEN /\ sleeps' = [sleeps EXCEPT ![i] = Append(@, retries[posts[i]])]
            /\ pc' = [pc EXCEPT ![i] = "post"]
       ELSE /\ pc' = [pc EXCEPT ![i] = "done"]
            /\ UNCHANGED sleeps
    /\ UNCHANGED <<gatewayVars, taskVars, posts, last, notifyUrl, payload, remoteVars>>

\* Variant of the end of the retry loop: when the list is exhausted the
\* loop starts over.
NotifySleep_Restart(i) ==
    /\ pc[i] = "sleep"
    /\ IF posts[i] < Len(retries)
       THEN /\ sleeps' = [sleeps EXCEPT ![i] = Append(@, retries[posts[i]])]
            /\ UNCHANGED posts
       ELSE /\ sleeps' = [sleeps EXCEPT ![i] = <<>>]
            /\ posts' = [posts EXCEPT ![i] = 0]
    /\ pc' = [pc EXCEPT ![i] = "post"]
    /\ UNCHANGED <<gatewayVars, taskVars, last, notifyUrl, payload, remoteVars>>

\* tasks.py:89, time.sleep(delay), then the next delay of the list, or
\* tasks.py:90 and the return when the list is exhausted (the task then
\* ends, tasks.py:139).
NotifySleep(i) ==
    /\ pc[i] = "sleep"
    /\ sleeps' = [sleeps EXCEPT ![i] = Append(@, retries[posts[i]])]
    /\ pc' = [pc EXCEPT ![i] = IF posts[i] < Len(retries) THEN "post" ELSE "done"]
    /\ UNCHANGED <<gatewayVars, taskVars, posts, last, notifyUrl, payload, remoteVars>>

(***************************************************************************)
(* Specifications.                                                         *)
(***************************************************************************)
\* The Publisher steps of the build task of request i.
PublishStep(i) ==
    \/ \E status \in GithubStatuses : GetRepo(i, status)
    \/ \E status \in GithubStatuses : DeleteRepo(i, status)
    \/ WaitAfterDelete(i)
    \/ \E status \in GithubStatuses : CreateRepo(i, status)
    \/ \E status \in GithubStatuses : CreateFile(i, status)

\* One step of handle_build_task for request i, up to the call of
\* notify_evaluator.
OrchestratorStep(i) ==
    \/ StartBuild(i)
    \/ DecodeStep(i)
    \/ \E ok \in BOOLEAN : GenerateHtml(i, ok)
    \/ \E ok \in BOOLEAN : GenerateReadme(i, ok)
    \/ PublishStep(i)
    \/ CallNotify(i)

\* One step of notify_evaluator for request i, the POST having one of the
\* given results.
NotifierStep(i, outcomes) ==
    \/ \E o \in outcomes : NotifyPost(i, o)
    \/ NotifySleep(i)

\* One step of handle_build_task for request i.
BuildStep(i) ==
    \/ OrchestratorStep(i)
    \/ NotifierStep(i, PostOutcomes)

\* The whole service: requests arrive while the background tasks of
\* earlier requests run in their worker threads.
Next ==
    \/ \E r \in Requests : ReceiveTask(r)
    \/ \E i \in Slots : HandleReviseTask(i)
    \/ \E i \in Slots : OrchestratorStep(i)
    \/ \E i \in Slots : NotifierStep(i, GatewayOutcomes)

Spec == Init /\ [][Next]_vars

\* One build task from its start to its end.
NextBuild == BuildStep(1)

SpecBuild == InitBuild /\ [][NextBuild]_vars

\* One build task whose worker thread keeps running: every call it makes
\* returns or raises, so a step that can be taken is taken.
SpecBuildFair == SpecBuild /\ WF_vars(NextBuild)

\* The tasks in flight publish concurrently.
NextPublish == \E i \in Slots : PublishStep(i)

SpecPublish == InitPublish /\ [][NextPublish]_vars

\* The Publisher steps of request i are over: the task was aborted or has
\* committed the three files.
PublishOver(i) == pc[i] \in { "failed", "notify" }

\* The caller sends a task again after the run before has ended: the
\* run of request i publishes once the runs of the requests before it
\* are over.
NextRetry ==
    \E i \in Slots :
        /\ \A j \in 1 .. (i - 1) : PublishOver(j)
        /\ PublishStep(i)

SpecRetry == InitPublish /\ [][NextRetry]_vars

(***************************************************************************)
(* Properties.                                                             *)
(***************************************************************************)
GeneratorOps == { "generate_content:html", "generate_content:readme" }
PublisherOps == { "get_repo", "delete", "sleep", "create_repo" } \cup CommitPaths
NotifierOps  == { "notify_evaluator" }

\* The component a logged call belongs to, in the order of the pipeline.
Rank(op) ==
    IF op \in GeneratorOps THEN 1
    ELSE IF op \in PublisherOps THEN 2
    ELSE 3

Count(log, op) == Cardinality({ k \in 1 .. Len(log) : log[k].op = op })

Has(log, op, res) == \E k \in 1 .. Len(log) : log[k] = Call(op, res)

\* Call c is in the log before position k.
Before(log, k, c) == \E j \in 1 .. (k - 1) : log[j] = c

IsPrefix(p, q) == Len(p) <= Len(q) /\ SubSeq(q, 1, Len(p)) = p

Ops(log) == [k \in 1 .. Len(log) |-> log[k].op]

\* C1: in every round-1 task that passed the gateway the calls run
\* Content Generator, then Publisher, then Notifier: a Publisher call is
\* made only after the generator has returned, notify_evaluator is entered
\* only after the commit of index.html has returned, no call of the
\* sequence is made twice (the log holds each operation once), and a task
\* that ran to its end made the whole sequence.
C1_GeneratorPublisherNotifierOnce ==
    \A i \in Slots :
        LET log == calls[i]
            ops == { log[k].op : k \in 1 .. Len(log) }
        IN  /\ \A k \in 1 .. (Len(log) - 1) :
                  Rank(log[k].op) <= Rank(log[k + 1].op)
            /\ \A k \in 1 .. Len(log) :
                  /\ log[k].op \in PublisherOps =>
                        Before(log, k, Call("generate_content:readme", "ok"))
                  /\ log[k].op \in NotifierOps =>
                        Before(log, k, Call("index.html", "ok"))
            /\ Cardinality(ops) = Len(log)
            /\ ops \subseteq GeneratorOps \cup PublisherOps \cup NotifierOps
            /\ (posts[i] > 0 => "notify_evaluator" \in ops)
            /\ (pc[i] = "done" /\ req[i].round = 1) =>
                  /\ Has(log, "generate_content:html", "ok")
                  /\ Has(log, "create_repo", "ok")
                  /\ \A path \in CommitPaths : Has(log, path, "ok")
                  /\ Has(log, "notify_evaluator", "ok")

\* A round-1 request came through the gateway and its task ran the whole
\* sequence, deleting the repository an earlier task had published.
C1_Witness ==
    \E i \in Slots :
        /\ req[i].round = 1
        /\ resp[i] = 200
        /\ pc[i] = "done"
        /\ Has(calls[i], "delete", "ok")
        /\ Len(calls[i]) = 10

NotDelivered(i) ==
    /\ posts[i] > 0
    /\ \/ last[i].kind = "response" /\ last[i].code # 200
       \/ last[i].kind = "RequestException"

\* C4: when no attempt gets a 200 (each gives another status or a
\* transport-level failure), the attempts are followed by the delays 1, 2,
\* 4, 8 in that order, the function returns after exactly 4 attempts, never
\* makes a fifth one, and does not raise.
C4_FourAttemptsThenReturn ==
    \A i \in Slots :
        /\ posts[i] <= 4
        /\ NotDelivered(i) =>
              /\ pc[i] \in { "sleep", "post", "done" }
              /\ failure[i] = ""
              /\ IsPrefix(sleeps[i], <<1, 2, 4, 8>>)
              /\ (pc[i] = "sleep" => Len(sleeps[i]) = posts[i] - 1)
              /\ (pc[i] = "post" => Len(sleeps[i]) = posts[i])
              /\ (pc[i] = "done" => posts[i] = 4 /\ sleeps[i] = <<1, 2, 4, 8>>)

\* Four attempts failed, the last with a status, and the function returned.
C4_Witness ==
    \E i \in Slots :
        /\ pc[i] = "done"
        /\ last[i] = Response(503)
        /\ posts[i] = 4
        /\ sleeps[i] = <<1, 2, 4, 8>>

\* C5: when attempt k is the first to get a 200, exactly k attempts are
\* made (1 <= k <= 4), the delays slept are the first k - 1 of 1, 2, 4, 8,
\* and the function has returned: no sleep and no POST follows the 200.
C5_ReturnsOnFirst200 ==
    \A i \in Slots :
        (posts[i] > 0 /\ last[i] = Response(200)) =>
            /\ pc[i] = "done"
            /\ failure[i] = ""
            /\ posts[i] \in 1 .. 4
            /\ sleeps[i] = SubSeq(<<1, 2, 4, 8>>, 1, posts[i] - 1)

\* The 200 came on the fourth attempt, after the delays 1, 2, 4.
C5_Witness ==
    \E i \in Slots :
        /\ last[i] = Response(200)
        /\ posts[i] = 4
        /\ sleeps[i] = <<1, 2, 4>>
        /\ pc[i] = "done"

\* The task identifier a repository name is derived from.
IsRepoOf(n, t) == n = <<"llm-agent-task-", t>>

\* Task i is between two of its Publisher calls.
Publishing(i) == pc[i] \in { "delete", "wait", "create_repo" } \cup CommitPaths

\* C2 as stated: the Publisher calls of a task on a repository name are
\* never interleaved with those of another task.
C2_NeverInterleaved ==
    \A n \in RepoNames : ~interleaved[n]

\* C2 as amended: every Publisher call of a task goes to the repository
\* named after its own task identifier, so the calls of two tasks
\* interleave on a repository name only when both carry the identifier
\* it is derived from; tasks with different identifiers never meet on a
\* repository name.
C2_InterleavedOnlyOnSameTaskId ==
    \A n \in RepoNames :
        /\ lastPub[n] # 0 => IsRepoOf(n, req[lastPub[n]].task)
        /\ interleaved[n] =>
              \E i, j \in Slots :
                  /\ i # j
                  /\ IsRepoOf(n, req[i].task)
                  /\ IsRepoOf(n, req[j].task)
                  /\ Count(calls[i], "get_repo") = 1
                  /\ Count(calls[j], "get_repo") = 1

\* Two tasks with the same identifier have both published, the calls of
\* one cut by the calls of the other.
C2_Witness ==
    \E i, j \in Slots :
        /\ i # j
        /\ req[i].task = req[j].task
        /\ pc[i] = "notify"
        /\ pc[j] = "notify"
        /\ \E n \in RepoNames : IsRepoOf(n, req[i].task) /\ interleaved[n]

\* The request i is one the gateway has received.
Received(i) == i <= nreq

\* C6: a request whose secret differs from the server's gets 403 and no
\* background task is added or run for it, whatever its round.
C6_BadSecret403NothingScheduled ==
    \A i \in Slots :
        (Received(i) /\ req[i].secret # "S") =>
            /\ resp[i] = 403
            /\ sched[i] = <<>>
            /\ pc[i] = "none"
            /\ calls[i] = <<>>
            /\ posts[i] = 0

\* A request with a wrong secret and a round outside {1, 2} was answered.
C6_Witness ==
    \E i \in Slots :
        /\ Received(i)
        /\ req[i].secret # "S"
        /\ req[i].round \notin { 1, 2 }
        /\ resp[i] = 403
        /\ \E j \in Slots : j # i /\ req[j].secret # "S" /\ req[j].round = 1
                            /\ resp[j] = 403

\* C7 as stated: every request with a round outside {1, 2} gets 400 and no
\* background work.
C7_BadRound400 ==
    \A i \in Slots :
        (Received(i) /\ req[i].round \notin { 1, 2 }) =>
            /\ resp[i] = 400
            /\ sched[i] = <<>>

\* C7 as amended: a request with the server's secret and a round outside
\* {1, 2} gets 400; with another secret it gets 403; no background work is
\* added or run for it in either case.
C7_BadRound400WhenSecretMatches ==
    \A i \in Slots :
        (Received(i) /\ req[i].round \notin { 1, 2 }) =>
            /\ resp[i] = IF req[i].secret = "S" THEN 400 ELSE 403
            /\ sched[i] = <<>>
            /\ pc[i] = "none"
            /\ calls[i] = <<>>

\* A request with the server's secret and round 3 was answered 400.
C7_Witness ==
    \E i \in Slots :
        /\ Received(i)
        /\ req[i].secret = "S"
        /\ req[i].round = 3
        /\ resp[i] = 400

\* C8: a round-2 task makes no call to the Content Generator, the
\* Publisher or the Notifier: it is dispatched to handle_revise_task and
\* ends.
C8_RoundTwoCallsNothing ==
    \A i \in Slots :
        (Received(i) /\ req[i].round = 2) =>
            /\ calls[i] = <<>>
            /\ posts[i] = 0
            /\ sleeps[i] = <<>>
            /\ \A n \in RepoNames : lastPub[n] # i
            /\ pc[i] \in { "none", "queued", "done" }
            /\ (req[i].secret = "S" => sched[i] = <<"handle_revise_task">>)

\* A round-2 task was dispatched and has ended, beside a build task.
C8_Witness ==
    \E i \in Slots :
        /\ req[i].round = 2
        /\ resp[i] = 200
        /\ pc[i] = "done"
        /\ \E j \in Slots : req[j].round = 1 /\ pc[j] = "done"

\* The data-URI holds no comma.
NoComma(url) == \A k \in 1 .. Len(url) : url[k] # ","

\* C9: a round-1 task with an attachment whose data-URI holds no comma,
\* at any position of the list, never calls the Content Generator or the
\* Publisher: it is still decoding or it has aborted.
C9_MalformedUriAbortsBeforeCalls ==
    \A i \in Slots :
        (\E k \in 1 .. Len(req[i].attachments) : NoComma(req[i].attachments[k].url)) =>
            /\ calls[i] = <<>>
            /\ pc[i] \in { "queued", "decode", "failed" }
            /\ \A n \in RepoNames : lastPub[n] # i
            /\ posts[i] = 0
            /\ (pc[i] = "failed" =>
                  /\ failure[i] \in { "ValueError", "binascii.Error", "UnicodeDecodeError" }
                  /\ attIdx[i] <= Len(req[i].attachments))

\* The task aborted on a malformed second attachment after decoding a
\* well-formed first one.
C9_Witness ==
    \E i \in Slots :
        /\ pc[i] = "failed"
        /\ failure[i] = "ValueError"
        /\ attIdx[i] = 2
        /\ DOMAIN decoded[i] # {}
        /\ NoComma(req[i].attachments[2].url)

\* The Publisher operations of task i, in the order it made them.
PublisherLog(i) ==
    SelectSeq(calls[i], LAMBDA c : c.op \in PublisherOps)

FatalErrors ==
    { "ValueError", "binascii.Error", "UnicodeDecodeError", "LLMError",
      "GithubException" }

Notified(i) == Has(calls[i], "notify_evaluator", "ok")

\* C12 as stated: every payload handed to the Notifier holds the entries
\* email, nonce and evaluation_url with the values of the request.
C12_PayloadEchoesThreeFields ==
    \A i \in Slots :
        Notified(i) =>
            /\ { "email", "nonce", "evaluation_url" } \subseteq DOMAIN payload[i]
            /\ payload[i].email = req[i].email
            /\ payload[i].nonce = req[i].nonce
            /\ payload[i].evaluation_url = req[i].evaluation_url

\* C12 as amended: every payload handed to the Notifier holds the entries
\* email and nonce (and task and round) with the values of the request;
\* evaluation_url is not an entry of the payload, it is the address the
\* payload is posted to, passed to the Notifier unchanged.
C12_PayloadEchoesEmailNoncePostedToUrl ==
    \A i \in Slots :
        IF Notified(i)
        THEN /\ DOMAIN payload[i] =
                  { "email", "task", "round", "nonce",
                    "repo_url", "commit_sha", "pages_url" }
             /\ payload[i].email = req[i].email
             /\ payload[i].nonce = req[i].nonce
             /\ payload[i].task = req[i].task
             /\ payload[i].round = req[i].round
             /\ notifyUrl[i] = req[i].evaluation_url
        ELSE DOMAIN payload[i] = {} /\ notifyUrl[i] = "" /\ posts[i] = 0

\* A request with the second set of pass-through values was notified and
\* a POST attempt has been made.
C12_Witness ==
    \E i \in Slots :
        /\ posts[i] > 0
        /\ req[i].email = "e2"
        /\ payload[i].nonce = "n2"
        /\ notifyUrl[i] = "u2"

\* C13: every received request with the matching secret and round 1 or 2
\* has exactly one background task scheduled, the handler of its round,
\* and its 200 response exists from the receipt on, in every state of the
\* task: not yet started, running, ended with an exception or returned.
\* No other request has a response of 200 or a task scheduled.
C13_OneTaskScheduledResponseAtOnce ==
    \A i \in Slots :
        Received(i) =>
            IF req[i].secret = "S" /\ req[i].round \in { 1, 2 }
            THEN /\ resp[i] = 200
                 /\ Len(sched[i]) = 1
                 /\ sched[i][1] = IF req[i].round = 1 THEN "handle_build_task"
                                  ELSE "handle_revise_task"
                 /\ pc[i] # "none"
            ELSE resp[i] # 200 /\ sched[i] = <<>> /\ pc[i] = "none"

\* Two accepted requests have their 200 response: the task of one has not
\* started, the task of the other has ended with an exception.
C13_Witness ==
    \E i, j \in Slots :
        /\ resp[i] = 200 /\ pc[i] = "queued"
        /\ resp[j] = 200 /\ pc[j] = "failed"

Ended(i) == pc[i] \in { "done", "failed" }

\* C14: a scheduled round-1 task whose calls all return or raise ends: it
\* stops with the exception of its first failing step, or it returns
\* having made the whole sequence.  When every POST attempt is answered
\* by a status other than 200 or fails at transport level, the task
\* returns after the delays 1, 2, 4, 8 without an exception, and the
\* response of its request stays the 200 sent at receipt.  A task that has
\* ended takes no further step.
C14_BuildTaskTerminates ==
    /\ \A i \in Slots : (pc[i] = "queued") ~> Ended(i)
    /\ [](\A i \in Slots :
            /\ pc[i] = "failed" <=> failure[i] # ""
            /\ pc[i] = "failed" /\ failure[i] \in FatalErrors =>
                  posts[i] = 0
            /\ pc[i] = "done" =>
                  /\ Has(calls[i], "index.html", "ok")
                  /\ Notified(i)
                  /\ resp[i] = 200
            /\ pc[i] = "done" /\ NotDelivered(i) =>
                  /\ posts[i] = Len(retries)
                  /\ sleeps[i] = retries)
    /\ [][\A i \in Slots : Ended(i) => UNCHANGED vars]_vars

\* The repository was deleted and published again, every POST attempt
\* failed at transport level, and the task returned.
C14_Witness ==
    \E i \in Slots :
        /\ pc[i] = "done"
        /\ Has(calls[i], "delete", "ok")
        /\ last[i] = Raised("RequestException")
        /\ sleeps[i] = <<1, 2, 4, 8>>
        /\ failure[i] = ""

\* C15: a task whose lookup was answered 404 goes from the lookup to
\* create_repo: it is about to call it or has called it, with no delete
\* and no wait in between; a task whose lookup was answered by another
\* failure status has ended by the exception, the lookup being its only
\* Publisher call.
C15_LookupOutcome ==
    \A i \in Slots :
        Len(answers[i]) >= 1 =>
            LET status == answers[i][1]
                log    == PublisherLog(i)
            IN  /\ status = 404 =>
                      /\ IsPrefix(Ops(log),
                            <<"get_repo", "create_repo",
                              "LICENSE", "README.md", "index.html">>)
                      /\ Len(log) = 1 => pc[i] = "create_repo"
                      /\ Len(answers[i]) = 1
                      /\ waits[i] = <<>>
                /\ status \notin { 200, 404 } =>
                      /\ pc[i] = "failed"
                      /\ failure[i] = "GithubException"
                      /\ Ops(log) = <<"get_repo">>

\* The lookup of one task was answered 404 and the task created the
\* repository without a delete or a wait; the lookup of another failed
\* with 500 and that task ended there.
C15_Witness ==
    \E i, j \in Slots :
        /\ answers[i] = <<404>>
        /\ Ops(PublisherLog(i)) = <<"get_repo", "create_repo">>
        /\ pc[i] = "LICENSE"
        /\ answers[j] = <<500>>
        /\ pc[j] = "failed"

\* Run i was aborted having committed some of the three files, not all.
PartlyPublished(i) ==
    /\ pc[i] = "failed"
    /\ Has(calls[i], "LICENSE", "ok")
    /\ ~Has(calls[i], "index.html", "ok")

\* C16: when a run was aborted having committed only some of the three
\* files and a later run of the same task identifier has committed its
\* three files (no run after it having started), the repository holds the
\* three commits of the later run and nothing else.  The run that follows
\* the aborted one has found the repository, deleted it, waited and
\* created it again; a run further on has done the same, or has found no
\* repository because a run in between deleted it and was aborted.
C16_LaterRunReplacesPartialPublish ==
    \A i, j \in Slots :
        ( /\ i < j
          /\ req[i].task = req[j].task
          /\ PartlyPublished(i)
          /\ pc[j] = "notify"
          /\ \A k \in Slots : k > j => pc[k] = "get_repo" ) =>
            /\ \/ Ops(PublisherLog(j)) =
                      <<"get_repo", "delete", "sleep", "create_repo",
                        "LICENSE", "README.md", "index.html">>
               \/ /\ j > i + 1
                  /\ Ops(PublisherLog(j)) =
                        <<"get_repo", "create_repo",
                          "LICENSE", "README.md", "index.html">>
                  /\ \E k \in (i + 1) .. (j - 1) :
                        /\ req[k].task = req[j].task
                        /\ pc[k] = "failed"
                        /\ Has(calls[k], "delete", "ok")
            /\ Has(calls[j], "create_repo", "ok")
            /\ repos[repo_name(j)].exists
            /\ repos[repo_name(j)].files = { Commit(j, path) : path \in CommitPaths }

\* The first run committed LICENSE and README.md and was aborted by the
\* commit of index.html; the next run of the same task committed its three
\* files.
C16_Witness ==
    \E i, j \in Slots :
        /\ i < j
        /\ req[i].task = req[j].task
        /\ PartlyPublished(i)
        /\ Has(calls[i], "README.md", "ok")
        /\ Has(calls[i], "index.html", "raised")
        /\ pc[j] = "notify"
        /\ Commit(j, "README.md") \in repos[repo_name(j)].files

\* The position of the last attachment of the list that carries the name.
LastWithName(atts, name) ==
    CHOOSE k \in 1 .. Len(atts) :
        /\ atts[k].name = name
        /\ \A j \in (k + 1) .. Len(atts) : atts[j].name # name

\* C17: when the Content Generator is called, the decoded attachments
\* hold one entry per distinct name of the request's list, and the content
\* under a name is the decoded payload of the last attachment of the list
\* with that name.
C17_LastAttachmentOfNameWins ==
    \A i \in Slots :
        calls[i] # <<>> =>
            LET atts == req[i].attachments
            IN  /\ DOMAIN decoded[i] = { atts[k].name : k \in 1 .. Len(atts) }
                /\ \A name \in DOMAIN decoded[i] :
                      decoded[i][name] =
                          DecodeAttachment(atts[LastWithName(atts, name)]).content

\* Two attachments named f, with the payloads "a" and then "b": the
\* generator was called with the single entry f -> "b".
C17_Witness ==
    \E i \in Slots :
        /\ calls[i] # <<>>
        /\ req[i].attachments = <<Attachment("f", UrlA), Attachment("f", UrlB)>>
        /\ DOMAIN decoded[i] = { "f" }
        /\ decoded[i]["f"] = <<98>>

RECURSIVE Sum(_)
Sum(seq) == IF seq = <<>> THEN 0 ELSE Head(seq) + Sum(Tail(seq))

\* The attempts of task i that the loop took as failed: those answered by
\* a status other than 200 or by a RequestException.
FailedAttempts(i) ==
    IF last[i] = Response(200) THEN posts[i] - 1 ELSE posts[i]

\* C18: in notify_evaluator every attempt taken as failed is followed by
\* the sleep of its delay, the fourth one too: between attempts and after
\* the return the sleeps are as many as the failed attempts, right after a
\* failed attempt one sleep is pending; when the fourth attempt fails the
\* delay 8 is slept before the return, the sleeps then sum to 15, and
\* there is no fifth attempt.
C18_SleepAfterEveryFailedAttempt ==
    \A i \in Slots :
        /\ posts[i] <= 4
        /\ sleeps[i] = SubSeq(<<1, 2, 4, 8>>, 1, Len(sleeps[i]))
        /\ pc[i] = "sleep" => NotDelivered(i) /\ Len(sleeps[i]) = posts[i] - 1
        /\ pc[i] \in { "post", "done" } /\ req[i].round = 1 =>
              Len(sleeps[i]) = FailedAttempts(i)
        /\ pc[i] = "done" /\ NotDelivered(i) =>
              /\ posts[i] = 4
              /\ sleeps[i][4] = 8
              /\ Sum(sleeps[i]) = 15
        /\ Len(sleeps[i]) = 4 => pc[i] = "done"

\* A task that published to a new repository made four attempts, the
\* fourth answered 503: it slept 8 after it, 15 in all, and returned.
C18_Witness ==
    \E i \in Slots :
        /\ pc[i] = "done"
        /\ answers[i] = <<404>>
        /\ FailedAttempts(i) = 4
        /\ last[i] = Response(503)
        /\ Len(sleeps[i]) = 4
        /\ Sum(sleeps[i]) = 15

\* C19: the handler of the try block treats the delete as it treats the
\* lookup.  A task whose delete was answered 404 is not aborted by it: it
\* goes from the delete to create_repo without the wait.  A task whose
\* delete was answered by another failure status has ended by the
\* exception, the delete being its last call.  A task has waited only
\* after a delete that returned.
C19_DeleteOutcome ==
    \A i \in Slots :
        LET log == PublisherLog(i)
        IN  /\ Len(answers[i]) = 2 =>
                  LET status == answers[i][2]
                  IN  /\ answers[i][1] = 200
                      /\ status = 404 =>
                            /\ IsPrefix(Ops(log),
                                  <<"get_repo", "delete", "create_repo",
                                    "LICENSE", "README.md", "index.html">>)
                            /\ Len(log) = 2 => pc[i] = "create_repo"
                            /\ ~Has(log, "delete", "raised")
                            /\ waits[i] = <<>>
                      /\ status \notin { 204, 404 } =>
                            /\ pc[i] = "failed"
                            /\ failure[i] = "GithubException"
                            /\ Ops(log) = <<"get_repo", "delete">>
                            /\ waits[i] = <<>>
            /\ waits[i] # <<>> => answers[i] = <<200, 204>>
            /\ Len(answers[i]) <= 2

\* Two tasks found the repository; one deleted it, and the delete of the
\* other was answered 404: that task went on and created the repository
\* without waiting.
C19_Witness ==
    \E i \in Slots :
        /\ answers[i] = <<200, 404>>
        /\ Ops(PublisherLog(i)) = <<"get_repo", "delete", "create_repo">>
        /\ pc[i] = "LICENSE"
        /\ waits[i] = <<>>

\* C20: the commit_sha of every payload handed to the Notifier is the
\* commit that the task's create_file of index.html returned, which the
\* repository holds; no commit is bound to commit_info before that one.
\* The repo_url and pages_url of the payload are those of the Repository
\* object that create_repo returned to the task in this run, not of the
\* object the lookup returned for the repository that was then deleted.
C20_PayloadOfThisRun ==
    \A i \in Slots :
        /\ pc[i] \in { "create_repo" } \cup CommitPaths =>
              commit_info[i] = NoCommit
        /\ Notified(i) =>
              /\ payload[i].commit_sha = Commit(i, "index.html")
              /\ payload[i].commit_sha \in repos[repo_name(i)].files
              /\ repo[i] = RepoObject(repo_name(i), "create_repo")
              /\ payload[i].repo_url = HtmlUrl(repo[i])
              /\ payload[i].pages_url = PagesUrl(repo[i])
              /\ payload[i].pages_url[4] = <<"llm-agent-task-", req[i].task>>

\* The task found a repository, deleted it, created it again, committed
\* the three files and handed its payload to the Notifier.
C20_Witness ==
    \E i \in Slots :
        /\ Notified(i)
        /\ answers[i] = <<200, 204>>
        /\ Cardinality(repos[repo_name(i)].files) = 3
        /\ payload[i].commit_sha.path = "index.html"

====
